---- MODULE Spec2Model ----
(***************************************************************************)
(* A model of extract_logs.py: the batch export that reads one user's      *)
(* rows from the user_logs table, decodes each row's event_data, groups    *)
(* the rows by "system{system}_task{taskNumber}", writes one JSON file per *)
(* group under <output_dir>/<user_id>/ and prints a summary.               *)
(*                                                                         *)
(* Python strings that take part in formatting or ordering are sequences   *)
(* of one-character strings, ordered by code point as Python orders them.  *)
(* A JSON value is a record tagged by its type:                            *)
(*   [t |-> "dict", items |-> <<[k |-> key, v |-> value], ...>>]           *)
(*   [t |-> "list", elems |-> <<value, ...>>]                              *)
(*   [t |-> "str", s |-> chars]   [t |-> "int", n |-> n]   [t |-> "null"]  *)
(* A dict keeps its items in insertion order, as a Python dict does.       *)
(***************************************************************************)
EXTENDS Integers, Sequences, FiniteSets, TLC

VARIABLES
    store,          \* the user_logs table: a sequence of rows, each with its id
    fs,             \* the files under <output_dir>: path -> content
    pc,             \* where main() is
    exc,            \* the exception that ended the run, or "none"
    args,           \* the parsed command line: [user_id, pretty]
    logs,           \* main's logs: what get_user_logs returned
    warned,         \* ids named by get_user_logs' decode warnings, in order
    task_logs,      \* main's task_logs: the dict organize_logs_by_task returned
    items,          \* save_task_logs: what is left of sorted(task_logs.items())
    created_files,  \* save_task_logs: the paths appended so far
    summary,        \* what print_summary displayed
    runs,           \* how many runs have been started
    fs0,            \* the files as they were when the current run started
    prev            \* what the last run that completed saw and wrote

vars == <<store, fs, pc, exc, args, logs, warned, task_logs, items,
          created_files, summary, runs, fs0, prev>>

(***************************************************************************)
(* Bounds of the model.                                                    *)
(***************************************************************************)
MaxRows == 2          \* rows in the table, general specification
MaxSaveRows == 3      \* rows in the table, save specification
MaxSummaryRows == 3   \* rows in the table, summary specification
MaxRunRows == 2       \* rows in the table, repeated-runs specification
MaxRuns == 2          \* runs into the same output directory

(***************************************************************************)
(* Strings.                                                                *)
(***************************************************************************)
s_system == <<"s", "y", "s", "t", "e", "m">>
s_task == <<"_", "t", "a", "s", "k">>
s_unknown == <<"u", "n", "k", "n", "o", "w", "n">>
s_None == <<"N", "o", "n", "e">>
s_json == <<".", "j", "s", "o", "n">>
s_sep == <<"_">>
s_A == <<"A">>
s_B == <<"B">>
s_1 == <<"1">>
k_system == <<"s", "y", "s", "t", "e", "m">>
k_taskNumber == <<"t", "a", "s", "k", "N", "u", "m", "b", "e", "r">>
k_raw == <<"r", "a", "w">>
k_id == <<"i", "d">>
k_timestamp == <<"t", "i", "m", "e", "s", "t", "a", "m", "p">>
k_message == <<"m", "e", "s", "s", "a", "g", "e">>
k_event_data == <<"e", "v", "e", "n", "t", "_", "d", "a", "t", "a">>
k_created_at == <<"c", "r", "e", "a", "t", "e", "d", "_", "a", "t">>
k_user_id == <<"u", "s", "e", "r", "_", "i", "d">>
k_task == <<"t", "a", "s", "k">>
k_log_count == <<"l", "o", "g", "_", "c", "o", "u", "n", "t">>
k_logs == <<"l", "o", "g", "s">>
P1 == <<"P", "1">>
P2 == <<"P", "2">>

\* The event_data texts the rows of the model carry.
T_A1 == <<"{", "\"", "s", "y", "s", "t", "e", "m", "\"", ":", "\"", "A", "\"", ",", "\"", "t", "a", "s", "k", "N", "u", "m", "b", "e", "r", "\"", ":", "1", "}">>
T_A1s == <<"{", "\"", "t", "a", "s", "k", "N", "u", "m", "b", "e", "r", "\"", ":", "\"", "1", "\"", ",", "\"", "s", "y", "s", "t", "e", "m", "\"", ":", "\"", "A", "\"", "}">>
T_B == <<"{", "\"", "s", "y", "s", "t", "e", "m", "\"", ":", "\"", "B", "\"", "}">>
T_t3 == <<"{", "\"", "t", "a", "s", "k", "N", "u", "m", "b", "e", "r", "\"", ":", "3", "}">>
T_empty == <<"{", "}">>
T_bad == <<"{", "o", "o", "p", "s">>
T_list == <<"[", "]">>

\* ord(): the code point of each character that takes part in an ordering.
Ord ==
    ("." :> 46) @@ ("0" :> 48) @@ ("1" :> 49) @@ ("2" :> 50) @@ ("3" :> 51)
    @@ ("4" :> 52) @@ ("5" :> 53) @@ ("6" :> 54) @@ ("7" :> 55) @@ ("8" :> 56)
    @@ ("9" :> 57) @@ ("A" :> 65) @@ ("B" :> 66) @@ ("N" :> 78) @@ ("P" :> 80)
    @@ ("_" :> 95) @@ ("a" :> 97) @@ ("b" :> 98) @@ ("c" :> 99) @@ ("d" :> 100)
    @@ ("e" :> 101) @@ ("g" :> 103) @@ ("i" :> 105) @@ ("j" :> 106)
    @@ ("k" :> 107) @@ ("l" :> 108) @@ ("m" :> 109) @@ ("n" :> 110)
    @@ ("o" :> 111) @@ ("p" :> 112) @@ ("r" :> 114) @@ ("s" :> 115)
    @@ ("t" :> 116) @@ ("u" :> 117) @@ ("v" :> 118) @@ ("w" :> 119)
    @@ ("y" :> 121)

\* Python's a < b on str: code points compared left to right, a proper
\* prefix before the longer string.
RECURSIVE StrLess(_, _)
StrLess(a, b) ==
    IF b = <<>> THEN FALSE
    ELSE IF a = <<>> THEN TRUE
    ELSE IF Ord[Head(a)] # Ord[Head(b)] THEN Ord[Head(a)] < Ord[Head(b)]
    ELSE StrLess(Tail(a), Tail(b))

\* str(n) for a non-negative int.
Digits == <<"0", "1", "2", "3", "4", "5", "6", "7", "8", "9">>
RECURSIVE StrOfInt(_)
StrOfInt(n) ==
    IF n < 10 THEN <<Digits[n + 1]>>
    ELSE StrOfInt(n \div 10) \o <<Digits[(n % 10) + 1]>>

\* What the f-string writes for a value: str(v).
PyStr(v) ==
    CASE v.t = "str" -> v.s
      [] v.t = "int" -> StrOfInt(v.n)
      [] v.t = "null" -> s_None

JStr(s) == [t |-> "str", s |-> s]
JInt(n) == [t |-> "int", n |-> n]
JDict(its) == [t |-> "dict", items |-> its]
JList(es) == [t |-> "list", elems |-> es]
Item(k, v) == [k |-> k, v |-> v]

(***************************************************************************)
(* get_user_logs.                                                          *)
(***************************************************************************)
\* json.loads on the event_data texts of the model: the decoded value, or
\* a JSONDecodeError.
json_loads(text) ==
    CASE text = T_A1 ->
           [ok |-> TRUE, val |-> JDict(<<Item(k_system, JStr(s_A)), Item(k_taskNumber, JInt(1))>>)]
      [] text = T_A1s ->
           [ok |-> TRUE, val |-> JDict(<<Item(k_taskNumber, JStr(s_1)), Item(k_system, JStr(s_A))>>)]
      [] text = T_B ->
           [ok |-> TRUE, val |-> JDict(<<Item(k_system, JStr(s_B))>>)]
      [] text = T_t3 ->
           [ok |-> TRUE, val |-> JDict(<<Item(k_taskNumber, JInt(3))>>)]
      [] text = T_empty ->
           [ok |-> TRUE, val |-> JDict(<<>>)]
      [] text = T_list ->
           [ok |-> TRUE, val |-> JList(<<>>)]
      [] OTHER ->
           [ok |-> FALSE, val |-> [t |-> "null"]]

\* The try/except around json.loads: the decoded value, or {'raw': text}.
DecodeEventData(text) ==
    IF json_loads(text).ok THEN json_loads(text).val
    ELSE JDict(<<Item(k_raw, JStr(text))>>)

\* dict(row) with its event_data replaced by the decoded value.
LogEntry(row) ==
    [id |-> row.id, user_id |-> row.user_id, timestamp |-> row.timestamp,
     message |-> row.message, event_data |-> DecodeEventData(row.event_data),
     created_at |-> row.created_at]

\* The rows WHERE user_id = ?, by their position in the table.
MatchingRows(table, user_id) ==
    {i \in 1..Len(table) : table[i].user_id = user_id}

\* The sequences without repetition over a finite set.
Orderings(S) ==
    {q \in [1..Cardinality(S) -> S] : \A i, j \in 1..Cardinality(S) : q[i] = q[j] => i = j}

\* The query without its ORDER BY clause.
QueryResults_unordered(table, user_id) ==
    Orderings(MatchingRows(table, user_id))

\* ORDER BY timestamp ASC: every order of the matching rows in which the
\* timestamps do not decrease. SQL leaves the order of rows with equal
\* timestamps to the engine.
QueryResults(table, user_id) ==
    {q \in Orderings(MatchingRows(table, user_id)) :
        \A i \in 1..(Len(q) - 1) : table[q[i]].timestamp <= table[q[i + 1]].timestamp}

\* cursor.fetchall() for one such order.
FetchAll(table, q) == [i \in 1..Len(q) |-> table[q[i]]]

\* The loop over the fetched rows: one log entry per row, in order.
DecodeRows(rows) == [i \in 1..Len(rows) |-> LogEntry(rows[i])]

\* The ids the decode warnings name, in the order they are printed.
RECURSIVE Warnings(_)
Warnings(rows) ==
    IF rows = <<>> THEN <<>>
    ELSE (IF json_loads(Head(rows).event_data).ok THEN <<>> ELSE <<Head(rows).id>>)
         \o Warnings(Tail(rows))

(***************************************************************************)
(* organize_logs_by_task.                                                  *)
(***************************************************************************)
IsDict(v) == v.t = "dict"

\* d.get(key, default) on a dict.
dict_get(d, key, default) ==
    IF \E i \in 1..Len(d.items) : d.items[i].k = key
    THEN d.items[CHOOSE i \in 1..Len(d.items) : d.items[i].k = key].v
    ELSE default

\* f"system{system}_task{task_number}"
FormatKey(system, task_number) ==
    s_system \o PyStr(system) \o s_task \o PyStr(task_number)

\* The key of a log entry whose event_data is a dict.
TaskKey(log) ==
    FormatKey(dict_get(log.event_data, k_system, JStr(s_unknown)),
              dict_get(log.event_data, k_taskNumber, JStr(s_unknown)))

clean_log(log) ==
    [id |-> log.id, timestamp |-> log.timestamp, message |-> log.message,
     event_data |-> log.event_data, created_at |-> log.created_at]

\* organized[key] = [clean_log] in place of the append.
AppendToGroup_overwrite(organized, key, entry) ==
    IF \E i \in 1..Len(organized) : organized[i].key = key
    THEN [i \in 1..Len(organized) |->
            IF organized[i].key = key
            THEN [key |-> key, logs |-> <<entry>>]
            ELSE organized[i]]
    ELSE Append(organized, [key |-> key, logs |-> <<entry>>])

\* organized[key].append(clean_log) on the defaultdict: a new key is
\* inserted last.
AppendToGroup(organized, key, entry) ==
    IF \E i \in 1..Len(organized) : organized[i].key = key
    THEN [i \in 1..Len(organized) |->
            IF organized[i].key = key
            THEN [key |-> key, logs |-> Append(organized[i].logs, entry)]
            ELSE organized[i]]
    ELSE Append(organized, [key |-> key, logs |-> <<entry>>])

\* The loop of organize_logs_by_task over entries whose event_data are dicts.
RECURSIVE OrganizeFrom(_, _)
OrganizeFrom(organized, rest) ==
    IF rest = <<>> THEN organized
    ELSE OrganizeFrom(AppendToGroup(organized, TaskKey(Head(rest)), clean_log(Head(rest))),
                      Tail(rest))

\* event_data.get raises AttributeError when event_data is not a dict.
OrganizeRaises(ls) == \E i \in 1..Len(ls) : ~IsDict(ls[i].event_data)

(***************************************************************************)
(* save_task_logs.                                                         *)
(***************************************************************************)
\* sorted(task_logs.items()): the (key, logs) tuples compare by key first,
\* and the keys of a dict differ.
RECURSIVE InsertItem(_, _)
InsertItem(sorted, it) ==
    IF sorted = <<>> THEN <<it>>
    ELSE IF StrLess(it.key, Head(sorted).key) THEN <<it>> \o sorted
    ELSE <<Head(sorted)>> \o InsertItem(Tail(sorted), it)

RECURSIVE SortedItemsFrom(_, _)
SortedItemsFrom(sorted, rest) ==
    IF rest = <<>> THEN sorted
    ELSE SortedItemsFrom(InsertItem(sorted, Head(rest)), Tail(rest))

\* task_logs.items() without sorted().
SortedItems_unsorted(d) == d

SortedItems(d) == SortedItemsFrom(<<>>, d)

\* A file name that leaves the key out.
filename_nokey(user_id, task_key) == user_id \o s_json

\* f"{user_id}_{task_key}.json"
filename(user_id, task_key) == user_id \o s_sep \o task_key \o s_json

\* output_path / filename, output_path being <output_dir>/<user_id>.
filepath(user_id, task_key) ==
    [folder |-> user_id, name |-> filename(user_id, task_key)]

\* A string the model keeps whole (timestamp, message, created_at).
JText(x) == [t |-> "text", x |-> x]

clean_log_json(l) ==
    JDict(<<Item(k_id, JInt(l.id)), Item(k_timestamp, JText(l.timestamp)),
            Item(k_message, JText(l.message)), Item(k_event_data, l.event_data),
            Item(k_created_at, JText(l.created_at))>>)

\* output_data
output_data(user_id, task_key, ls) ==
    JDict(<<Item(k_user_id, JStr(user_id)), Item(k_task, JStr(task_key)),
            Item(k_log_count, JInt(Len(ls))),
            Item(k_logs, JList([i \in 1..Len(ls) |-> clean_log_json(ls[i])]))>>)

\* sort_keys=True: the items of every dict in key order.
RECURSIVE InsertByKey(_, _)
InsertByKey(sorted, it) ==
    IF sorted = <<>> THEN <<it>>
    ELSE IF StrLess(it.k, Head(sorted).k) THEN <<it>> \o sorted
    ELSE <<Head(sorted)>> \o InsertByKey(Tail(sorted), it)

RECURSIVE SortItemsByKey(_, _)
SortItemsByKey(sorted, rest) ==
    IF rest = <<>> THEN sorted
    ELSE SortItemsByKey(InsertByKey(sorted, Head(rest)), Tail(rest))

RECURSIVE SortKeys(_)
SortKeys(v) ==
    CASE v.t = "dict" ->
           JDict(SortItemsByKey(<<>>, [i \in 1..Len(v.items) |->
                                        Item(v.items[i].k, SortKeys(v.items[i].v))]))
      [] v.t = "list" -> JList([i \in 1..Len(v.elems) |-> SortKeys(v.elems[i])])
      [] OTHER -> v

\* json.dump(output_data, f) or json.dump(output_data, f, indent=2,
\* sort_keys=True): the document as written, its dicts in the order their
\* keys appear in the text, and the layout.
json_dump(v, pretty) ==
    [complete |-> TRUE, pretty |-> pretty, doc |-> IF pretty THEN SortKeys(v) ELSE v]

\* A file that open(filepath, 'w') truncated and json.dump did not finish.
Truncated == [complete |-> FALSE]

WriteFile(files, path, content) ==
    [p \in (DOMAIN files) \cup {path} |-> IF p = path THEN content ELSE files[p]]

(***************************************************************************)
(* print_summary.                                                          *)
(***************************************************************************)
\* event_types[message] += 1 on the defaultdict: a new message is
\* inserted last.
CountMessage(event_types, message) ==
    IF \E i \in 1..Len(event_types) : event_types[i].message = message
    THEN [i \in 1..Len(event_types) |->
            IF event_types[i].message = message
            THEN [message |-> message, count |-> event_types[i].count + 1]
            ELSE event_types[i]]
    ELSE Append(event_types, [message |-> message, count |-> 1])

RECURSIVE CountLogs(_, _)
CountLogs(event_types, ls) ==
    IF ls = <<>> THEN event_types
    ELSE CountLogs(CountMessage(event_types, Head(ls).message), Tail(ls))

\* for logs in task_logs.values(): for log in logs: ...
RECURSIVE CountGroups(_, _)
CountGroups(event_types, groups) ==
    IF groups = <<>> THEN event_types
    ELSE CountGroups(CountLogs(event_types, Head(groups).logs), Tail(groups))

\* reversed(sorted(..., key=lambda x: x[1])): entries with equal counts
\* come out in the reverse of their order in event_types.
RECURSIVE InsertByCount_ties_reversed(_, _)
InsertByCount_ties_reversed(sorted, e) ==
    IF sorted = <<>> THEN <<e>>
    ELSE IF e.count >= Head(sorted).count THEN <<e>> \o sorted
    ELSE <<Head(sorted)>> \o InsertByCount_ties_reversed(Tail(sorted), e)

\* sorted(event_types.items(), key=lambda x: x[1], reverse=True): stable,
\* so entries with equal counts keep the order they have in event_types.
RECURSIVE InsertByCount(_, _)
InsertByCount(sorted, e) ==
    IF sorted = <<>> THEN <<e>>
    ELSE IF e.count > Head(sorted).count THEN <<e>> \o sorted
    ELSE <<Head(sorted)>> \o InsertByCount(Tail(sorted), e)

RECURSIVE SortByCountDesc(_, _)
SortByCountDesc(sorted, rest) ==
    IF rest = <<>> THEN sorted
    ELSE SortByCountDesc(InsertByCount(sorted, Head(rest)), Tail(rest))

RECURSIVE SumLens(_)
SumLens(groups) ==
    IF groups = <<>> THEN 0 ELSE Len(Head(groups).logs) + SumLens(Tail(groups))

Summary(d) ==
    [total_logs |-> SumLens(d),
     combinations |-> Len(d),
     per_task |-> [i \in 1..Len(d) |->
                     [key |-> SortedItems(d)[i].key, count |-> Len(SortedItems(d)[i].logs)]],
     event_types |-> SortByCountDesc(<<>>, CountGroups(<<>>, d))]

NoSummary == [total_logs |-> 0, combinations |-> 0, per_task |-> <<>>, event_types |-> <<>>]

(***************************************************************************)
(* The table and the output directory a run starts from.                   *)
(***************************************************************************)
CreatedAts == {0}

\* The tables of at most n rows, the row at position i having id i.
Tables(n, users, timestamps, messages, texts) ==
    UNION {{[i \in 1..m |-> [id |-> i] @@ f[i]] :
               f \in [1..m -> [user_id : users, timestamp : timestamps,
                               message : messages, event_data : texts,
                               created_at : CreatedAts]]} : m \in 0..n}

\* The tables of at most n rows that were appended as time went by: the
\* row at position i has id i and timestamp i.
AppendOnlyTables(n, users, messages, texts) ==
    UNION {{[i \in 1..m |-> [id |-> i, timestamp |-> i] @@ f[i]] :
               f \in [1..m -> [user_id : users, message : messages,
                               event_data : texts, created_at : CreatedAts]]} : m \in 0..n}

EmptyFs == [p \in {} |-> Truncated]

\* A file in the user's folder that no run of the program names.
OtherPath == [folder |-> P1, name |-> <<"n", "o", "t", "e", "s">>]
OtherFile == [complete |-> TRUE, pretty |-> FALSE, doc |-> [t |-> "null"]]

NoArgs == [user_id |-> P1, pretty |-> FALSE]
NoPrev == [valid |-> FALSE, store |-> <<>>, args |-> NoArgs, out |-> EmptyFs]

InitWith(tables, files) ==
    /\ store \in tables
    /\ fs = files
    /\ fs0 = files
    /\ pc = "main"
    /\ exc = "none"
    /\ args = NoArgs
    /\ logs = <<>>
    /\ warned = <<>>
    /\ task_logs = <<>>
    /\ items = <<>>
    /\ created_files = <<>>
    /\ summary = NoSummary
    /\ runs = 1
    /\ prev = NoPrev

\* Every kind of row: both users, equal and unequal timestamps, every text.
Init ==
    InitWith(Tables(MaxRows, {P1, P2}, {1, 2}, {"click"},
                    {T_A1, T_A1s, T_B, T_empty, T_bad, T_list}),
             EmptyFs)

\* Up to three groups, in any order of arrival.
InitSave ==
    InitWith(Tables(MaxSaveRows, {P1}, {1, 2}, {"click"}, {T_A1, T_B, T_t3}),
             EmptyFs)

\* Several messages over two groups.
InitSummary ==
    InitWith(AppendOnlyTables(MaxSummaryRows, {P1}, {"click", "hover", "key"}, {T_A1, T_B}),
             EmptyFs)

\* Runs into a directory that holds a file of its own.
InitRuns ==
    InitWith(Tables(MaxRunRows, {P1}, {1, 2}, {"click"}, {T_A1, T_t3}),
             OtherPath :> OtherFile)

(***************************************************************************)
(* main.                                                                   *)
(***************************************************************************)
\* parse_arguments: the user is P1; --pretty is given or not.
parse_arguments ==
    /\ pc = "main"
    /\ \E pretty \in BOOLEAN : args' = [user_id |-> P1, pretty |-> pretty]
    /\ pc' = "get_user_logs"
    /\ UNCHANGED <<store, fs, exc, logs, warned, task_logs, items, created_files,
                   summary, runs, fs0, prev>>

\* logs = get_user_logs(str(db_path), args.user_id)
get_user_logs ==
    /\ pc = "get_user_logs"
    /\ \E q \in QueryResults(store, args.user_id) :
          /\ logs' = DecodeRows(FetchAll(store, q))
          /\ warned' = Warnings(FetchAll(store, q))
    /\ pc' = "got_logs"
    /\ UNCHANGED <<store, fs, exc, args, task_logs, items, created_files, summary,
                   runs, fs0, prev>>

\* if not logs: sys.exit(0)
NoLogs ==
    /\ pc = "got_logs"
    /\ logs = <<>>
    /\ pc' = "exit"
    /\ UNCHANGED <<store, fs, exc, args, logs, warned, task_logs, items,
                   created_files, summary, runs, fs0, prev>>

\* task_logs = organize_logs_by_task(logs)
organize_logs_by_task ==
    /\ pc = "got_logs"
    /\ logs # <<>>
    /\ IF OrganizeRaises(logs)
       THEN /\ pc' = "raised"
            /\ exc' = "AttributeError"
            /\ UNCHANGED task_logs
       ELSE /\ pc' = "save"
            /\ task_logs' = OrganizeFrom(<<>>, logs)
            /\ UNCHANGED exc
    /\ UNCHANGED <<store, fs, args, logs, warned, items, created_files, summary,
                   runs, fs0, prev>>

\* The user's folder emptied before it is written to.
Mkdirs_clean(files, user_id) ==
    [p \in {q \in DOMAIN files : q.folder # user_id} |-> files[p]]

\* The two mkdir(parents=True, exist_ok=True): the files already there stay.
Mkdirs(files, user_id) == files

\* save_task_logs up to its loop.
save_task_logs_begin ==
    /\ pc = "save"
    /\ fs' = Mkdirs(fs, args.user_id)
    /\ created_files' = <<>>
    /\ items' = SortedItems(task_logs)
    /\ pc' = "save_loop"
    /\ UNCHANGED <<store, exc, args, logs, warned, task_logs, summary, runs, fs0, prev>>

\* mkdir raises OSError: nothing is written.
save_task_logs_mkdir_error ==
    /\ pc = "save"
    /\ pc' = "raised"
    /\ exc' = "OSError"
    /\ UNCHANGED <<store, fs, args, logs, warned, task_logs, items, created_files,
                   summary, runs, fs0, prev>>

\* One turn of the loop: the file of the next group is written whole.
save_task_logs_write ==
    /\ pc = "save_loop"
    /\ items # <<>>
    /\ LET task_key == Head(items).key
           path == filepath(args.user_id, task_key)
           data == output_data(args.user_id, task_key, Head(items).logs)
       IN  /\ fs' = WriteFile(fs, path, json_dump(data, args.pretty))
           /\ created_files' = Append(created_files, path)
    /\ items' = Tail(items)
    /\ UNCHANGED <<store, pc, exc, args, logs, warned, task_logs, summary, runs, fs0, prev>>

\* The failure caught inside the loop, which goes on to the next group.
save_task_logs_write_error_swallowed ==
    /\ pc = "save_loop"
    /\ items # <<>>
    /\ \/ UNCHANGED fs
       \/ fs' = WriteFile(fs, filepath(args.user_id, Head(items).key), Truncated)
    /\ items' = Tail(items)
    /\ UNCHANGED <<store, pc, exc, args, logs, warned, task_logs, created_files,
                   summary, runs, fs0, prev>>

\* One turn of the loop fails: open raises and the file is as it was, or
\* json.dump raises after open truncated the file. The exception leaves
\* save_task_logs and main.
save_task_logs_write_error ==
    /\ pc = "save_loop"
    /\ items # <<>>
    /\ \/ UNCHANGED fs
       \/ fs' = WriteFile(fs, filepath(args.user_id, Head(items).key), Truncated)
    /\ pc' = "raised"
    /\ exc' = "OSError"
    /\ UNCHANGED <<store, args, logs, warned, task_logs, items, created_files,
                   summary, runs, fs0, prev>>

\* return created_files
save_task_logs_return ==
    /\ pc = "save_loop"
    /\ items = <<>>
    /\ pc' = "summary"
    /\ UNCHANGED <<store, fs, exc, args, logs, warned, task_logs, items,
                   created_files, summary, runs, fs0, prev>>

\* print_summary(args.user_id, task_logs), then main ends.
print_summary ==
    /\ pc = "summary"
    /\ summary' = Summary(task_logs)
    /\ pc' = "done"
    /\ UNCHANGED <<store, fs, exc, args, logs, warned, task_logs, items,
                   created_files, runs, fs0, prev>>

Terminal == {"exit", "raised", "done"}

\* What a run that completed wrote: its files and their contents.
RunOutput == [p \in {created_files[i] : i \in 1..Len(created_files)} |-> fs[p]]

\* The program is run again, into the same output directory.
RunAgain ==
    /\ pc \in Terminal
    /\ runs < MaxRuns
    /\ runs' = runs + 1
    /\ prev' = IF pc = "done"
               THEN [valid |-> TRUE, store |-> store, args |-> args, out |-> RunOutput]
               ELSE prev
    /\ fs0' = fs
    /\ pc' = "main"
    /\ exc' = "none"
    /\ args' = NoArgs
    /\ logs' = <<>>
    /\ warned' = <<>>
    /\ task_logs' = <<>>
    /\ items' = <<>>
    /\ created_files' = <<>>
    /\ summary' = NoSummary
    /\ UNCHANGED <<store, fs>>

\* Between two runs a row is deleted from the table.
DeleteRow ==
    /\ pc \in Terminal
    /\ runs < MaxRuns
    /\ \E i \in 1..Len(store) :
          store' = [j \in 1..(Len(store) - 1) |-> IF j < i THEN store[j] ELSE store[j + 1]]
    /\ UNCHANGED <<fs, pc, exc, args, logs, warned, task_logs, items, created_files,
                   summary, runs, fs0, prev>>

Next ==
    \/ parse_arguments
    \/ get_user_logs
    \/ NoLogs
    \/ organize_logs_by_task
    \/ save_task_logs_begin
    \/ save_task_logs_mkdir_error
    \/ save_task_logs_write
    \/ save_task_logs_write_error
    \/ save_task_logs_return
    \/ print_summary

NextRuns ==
    \/ Next
    \/ RunAgain
    \/ DeleteRow

Spec == Init /\ [][Next]_vars

SpecSave == InitSave /\ [][Next]_vars

SpecSummary == InitSummary /\ [][Next]_vars

SpecRuns == InitRuns /\ [][NextRuns]_vars

(***************************************************************************)
(* Reading the state: what the files written hold, and where a record is.  *)
(***************************************************************************)
Written == {created_files[i] : i \in 1..Len(created_files)}

FileLogs(p) == dict_get(fs[p].doc, k_logs, JList(<<>>)).elems
FileLogCount(p) == dict_get(fs[p].doc, k_log_count, JInt(0)).n
EntryId(e) == dict_get(e, k_id, JInt(0)).n
EntryTimestamp(e) == dict_get(e, k_timestamp, JText(0)).x

Occurrences(p, id) ==
    Cardinality({j \in 1..Len(FileLogs(p)) : EntryId(FileLogs(p)[j]) = id})

FilesHolding(id) == {p \in Written : Occurrences(p, id) >= 1}

SameFile(a, b) == FilesHolding(a.id) \cap FilesHolding(b.id) # {}

RECURSIVE SumLogCounts(_)
SumLogCounts(S) ==
    IF S = {} THEN 0
    ELSE LET p == CHOOSE q \in S : TRUE
         IN  FileLogCount(p) + SumLogCounts(S \ {p})

GroupsHolding(id) ==
    {g \in 1..Len(task_logs) :
        \E j \in 1..Len(task_logs[g].logs) : task_logs[g].logs[j].id = id}

GroupKeys == {task_logs[g].key : g \in 1..Len(task_logs)}

CurrentPaths == {filepath(args.user_id, k) : k \in GroupKeys}

UnknownKey == s_system \o s_unknown \o s_task \o s_unknown

RowWithId(id) == CHOOSE i \in 1..Len(store) : store[i].id = id

PositionInLogs(id) == CHOOSE i \in 1..Len(logs) : logs[i].id = id

(***************************************************************************)
(* C1. In every run that completes, each record get_user_logs returned is  *)
(* in the logs list of exactly one file written, once, and the log_count   *)
(* of the files written add up to the number of records returned.          *)
(***************************************************************************)
C1_NoRecordLostOrDuplicated ==
    pc \in {"exit", "summary", "done"} =>
        /\ \A i \in 1..Len(logs) :
              /\ Cardinality(FilesHolding(logs[i].id)) = 1
              /\ \A p \in Written : Occurrences(p, logs[i].id) <= 1
        /\ SumLogCounts(Written) = Len(logs)

C1_Witness ==
    /\ pc = "done"
    /\ Len(logs) >= 2
    /\ \E p \in Written : FileLogCount(p) >= 2

(***************************************************************************)
(* C2. When the run has ended, every record whose event_data text did not  *)
(* decode was kept with event_data {"raw": text}, all the user's rows were *)
(* decoded, and the record is in exactly one group, whose key is           *)
(* systemunknown_taskunknown.                                              *)
(***************************************************************************)
C2_BadRecordKeptAndGrouped ==
    pc \in Terminal =>
        /\ Len(logs) = Cardinality(MatchingRows(store, args.user_id))
        /\ \A i \in 1..Len(logs) :
              LET text == store[RowWithId(logs[i].id)].event_data
              IN  ~json_loads(text).ok =>
                    /\ logs[i].event_data = JDict(<<Item(k_raw, JStr(text))>>)
                    /\ \E g \in 1..Len(task_logs) :
                          /\ GroupsHolding(logs[i].id) = {g}
                          /\ task_logs[g].key = UnknownKey

(***************************************************************************)
(* C3. When the run has ended, every record whose decoded event_data is    *)
(* not a mapping is in the single group systemunknown_taskunknown, and the *)
(* grouping was not aborted.                                               *)
(***************************************************************************)
C3_NonMappingGrouped ==
    pc \in Terminal =>
        \A i \in 1..Len(logs) :
            ~IsDict(logs[i].event_data) =>
                /\ exc # "AttributeError"
                /\ \E g \in 1..Len(task_logs) :
                      /\ GroupsHolding(logs[i].id) = {g}
                      /\ task_logs[g].key = UnknownKey

(***************************************************************************)
(* C5. As claimed: a run that completes has written as many files as there *)
(* are distinct (system, taskNumber) pairs among the records, and two      *)
(* records share a file exactly when their pairs are equal.                *)
(***************************************************************************)
Pair(log) ==
    <<dict_get(log.event_data, k_system, JStr(s_unknown)),
      dict_get(log.event_data, k_taskNumber, JStr(s_unknown))>>

C5_OneFilePerPair ==
    pc = "done" =>
        /\ Cardinality(Written) = Cardinality({Pair(logs[i]) : i \in 1..Len(logs)})
        /\ \A i, j \in 1..Len(logs) :
              SameFile(logs[i], logs[j]) <=> Pair(logs[i]) = Pair(logs[j])

(***************************************************************************)
(* C5, amended. The files a run writes are one per distinct group key      *)
(* "system{system}_task{taskNumber}": no file is written twice, never more *)
(* files than distinct keys, two records written share a file exactly when *)
(* their keys are the same string, and when save_task_logs has returned    *)
(* there are as many files as distinct keys.                               *)
(***************************************************************************)
C5_OneFilePerKey ==
    ~OrganizeRaises(logs) =>
        LET keys == {TaskKey(logs[i]) : i \in 1..Len(logs)}
        IN  /\ Len(created_files) = Cardinality(Written)
            /\ Cardinality(Written) <= Cardinality(keys)
            /\ \A i, j \in 1..Len(logs) :
                  (FilesHolding(logs[i].id) # {} /\ FilesHolding(logs[j].id) # {}) =>
                      (SameFile(logs[i], logs[j]) <=> TaskKey(logs[i]) = TaskKey(logs[j]))
            /\ pc \in {"summary", "done"} =>
                  /\ Cardinality(Written) = Cardinality(keys)
                  /\ \A i \in 1..Len(logs) : FilesHolding(logs[i].id) # {}

C5_Witness ==
    /\ pc = "done"
    /\ \E i, j \in 1..Len(logs) :
          /\ Pair(logs[i]) # Pair(logs[j])
          /\ SameFile(logs[i], logs[j])

(***************************************************************************)
(* C6. get_user_logs returns the records in ascending timestamp order, and *)
(* the logs list of every file written is in ascending timestamp order,    *)
(* its records in the order in which get_user_logs returned them.          *)
(***************************************************************************)
C6_FilesSortedByTimestamp ==
    /\ \A i, j \in 1..Len(logs) : i < j => logs[i].timestamp <= logs[j].timestamp
    /\ \A p \in Written :
          \A j, k \in 1..Len(FileLogs(p)) :
              j < k =>
                /\ EntryTimestamp(FileLogs(p)[j]) <= EntryTimestamp(FileLogs(p)[k])
                /\ PositionInLogs(EntryId(FileLogs(p)[j])) < PositionInLogs(EntryId(FileLogs(p)[k]))

C6_Witness ==
    /\ pc = "done"
    /\ Len(store) = 2
    /\ store[1].timestamp > store[2].timestamp
    /\ \E p \in Written : Len(FileLogs(p)) = 2

(***************************************************************************)
(* C4. The files written whole by the run are always those of the first    *)
(* groups in key order. When a write has failed, the run has ended: the    *)
(* files of the groups before the failing one hold their groups, whole,    *)
(* the files of the groups after it are as they were when the run started, *)
(* and nothing more happens.                                               *)
(***************************************************************************)
ExpectedFile(g) == json_dump(output_data(args.user_id, g.key, g.logs), args.pretty)

WrittenWhole ==
    {p \in DOMAIN fs : fs[p].complete /\ (p \notin DOMAIN fs0 \/ fs0[p] # fs[p])}

AsAtStart(p) ==
    /\ p \in DOMAIN fs <=> p \in DOMAIN fs0
    /\ p \in DOMAIN fs => fs[p] = fs0[p]

C4_WriteErrorIsFatal ==
    LET sg == SortedItems(task_logs)
        n == Len(created_files)
    IN  /\ n <= Len(sg)
        /\ WrittenWhole = {filepath(args.user_id, sg[i].key) : i \in 1..n}
        /\ (pc = "raised" /\ exc = "OSError") =>
              /\ \A i \in 1..n :
                    fs[filepath(args.user_id, sg[i].key)] = ExpectedFile(sg[i])
              /\ \A i \in (n + 2)..Len(sg) : AsAtStart(filepath(args.user_id, sg[i].key))
              /\ ~ENABLED Next

C4_Witness ==
    /\ pc = "raised"
    /\ exc = "OSError"
    /\ Len(task_logs) = 3
    /\ Len(created_files) = 1
    /\ \E p \in DOMAIN fs : ~fs[p].complete

(***************************************************************************)
(* C7. The paths in created_files are those of the smallest group keys, in *)
(* ascending key order, each appended as its file is written; when         *)
(* save_task_logs has returned there is exactly one path per group.        *)
(***************************************************************************)
KeyOfPath(p) == CHOOSE k \in GroupKeys : filepath(args.user_id, k) = p

C7_WrittenInKeyOrder ==
    /\ \A i \in 1..Len(created_files) :
          /\ created_files[i] \in CurrentPaths
          /\ created_files[i] \in DOMAIN fs
          /\ fs[created_files[i]].complete
    /\ \A i, j \in 1..Len(created_files) :
          i < j => StrLess(KeyOfPath(created_files[i]), KeyOfPath(created_files[j]))
    /\ \A k \in GroupKeys :
          filepath(args.user_id, k) \notin Written =>
              \A i \in 1..Len(created_files) : StrLess(KeyOfPath(created_files[i]), k)
    /\ pc \in {"summary", "done"} =>
          /\ Len(created_files) = Len(task_logs)
          /\ Written = CurrentPaths

C7_Witness ==
    /\ pc = "done"
    /\ Len(task_logs) = 3
    /\ StrLess(task_logs[3].key, task_logs[1].key)
    /\ Len(created_files) = 3

(***************************************************************************)
(* C9. As claimed: the histogram is displayed by descending count, and     *)
(* messages with equal counts in the order of their first records in the   *)
(* sequence get_user_logs returned.                                        *)
(***************************************************************************)
FirstAt(messages, m) ==
    CHOOSE i \in 1..Len(messages) :
        /\ messages[i] = m
        /\ \A j \in 1..(i - 1) : messages[j] # m

OriginalMessages == [i \in 1..Len(logs) |-> logs[i].message]

RECURSIVE FlattenGroups(_)
FlattenGroups(groups) ==
    IF groups = <<>> THEN <<>>
    ELSE [i \in 1..Len(Head(groups).logs) |-> Head(groups).logs[i].message]
         \o FlattenGroups(Tail(groups))

\* Group by group in the order the groups were created, and in each group
\* in the order of arrival.
GroupwiseMessages == FlattenGroups(task_logs)

DescendingTiesBy(messages) ==
    \A a, b \in 1..Len(summary.event_types) :
        a < b =>
            \/ summary.event_types[a].count > summary.event_types[b].count
            \/ /\ summary.event_types[a].count = summary.event_types[b].count
               /\ FirstAt(messages, summary.event_types[a].message)
                    < FirstAt(messages, summary.event_types[b].message)

C9_TiesByOriginalOrder ==
    pc = "done" => DescendingTiesBy(OriginalMessages)

(***************************************************************************)
(* C9, amended. The histogram counts every message of the run, is          *)
(* displayed by descending count, and messages with equal counts are in    *)
(* the order in which they are first met going through the groups in the   *)
(* order the groups were created, each group in its order of arrival.      *)
(***************************************************************************)
C9_TiesByGroupOrder ==
    pc = "done" =>
        /\ {summary.event_types[a].message : a \in 1..Len(summary.event_types)}
             = {logs[i].message : i \in 1..Len(logs)}
        /\ \A a \in 1..Len(summary.event_types) :
              summary.event_types[a].count =
                  Cardinality({i \in 1..Len(logs) :
                                  logs[i].message = summary.event_types[a].message})
        /\ DescendingTiesBy(GroupwiseMessages)

C9_Witness ==
    /\ pc = "done"
    /\ \E a, b \in 1..Len(summary.event_types) :
          /\ a < b
          /\ summary.event_types[a].count = summary.event_types[b].count
          /\ FirstAt(OriginalMessages, summary.event_types[a].message)
               > FirstAt(OriginalMessages, summary.event_types[b].message)

(***************************************************************************)
(* C8. A run that completes over the table and the flags of the last run   *)
(* that completed writes the same files with the same contents.            *)
(***************************************************************************)
C8_SameOutputOnRerun ==
    (pc = "done" /\ prev.valid /\ prev.store = store /\ prev.args = args) =>
        RunOutput = prev.out

(***************************************************************************)
(* C10. Whatever runs came before, a run leaves every file that was in the *)
(* directory when it started in place, changes only files named for the    *)
(* keys of its own groups, creates only such files, and a run that finds   *)
(* no record leaves the directory as it was.                               *)
(***************************************************************************)
C10_OnlyCurrentFilesTouched ==
    /\ \A p \in DOMAIN fs0 :
          /\ p \in DOMAIN fs
          /\ p \notin CurrentPaths => fs[p] = fs0[p]
    /\ \A p \in (DOMAIN fs) \ (DOMAIN fs0) : p \in CurrentPaths
    /\ pc = "exit" => fs = fs0

C10_Witness ==
    /\ pc = "done"
    /\ prev.valid
    /\ \E p \in DOMAIN prev.out :
          /\ p \notin CurrentPaths
          /\ p \in DOMAIN fs
          /\ fs[p] = prev.out[p]

====
